---- MODULE Spec2Model ----
(***************************************************************************)
(* The tray lifecycle of gpui-tray's Windows backend                       *)
(* (crates/tray-windows/src/{tray,state,window,util}.rs) as a state        *)
(* machine.  One action, SetTray, is one WindowsTray::set_tray call: the   *)
(* whole handler, with every native call it makes.  The operating system   *)
(* (window table, per-window user data, heap boxes, popup menus, the       *)
(* shell's icon registrations) is part of the state; each native call      *)
(* that the code tests for failure may fail.  The Linux and macOS          *)
(* backends (crates/tray-{linux,macos}/src/{tray,state}.rs) and the        *)
(* descriptor builder (crates/tray/src/types.rs) follow.                   *)
(***************************************************************************)
EXTENDS Integers, Sequences, FiniteSets, TLC

VARIABLES
    hasGlobal,  \* app.has_global::<WindowsTrayState>()
    tray,       \* WindowsTrayState.tray: <<>> is None, <<t>> is Some(t)
    COUNTER,    \* static COUNTER: AtomicU32
    windows,    \* handles of the native windows that exist
    userData,   \* GWLP_USERDATA slot of each window (0 is null)
    boxes,      \* heap: boxes[p] is the TrayUserData behind pointer p
    menus,      \* menus[h] is the popup menu behind HMENU h
    shell,      \* the icon registrations the shell holds
    verbs,      \* every Shell_NotifyIconW call issued, in order
    lastNid,    \* the NOTIFYICONDATAW of the latest Shell_NotifyIconW call
    builds,     \* every build_menu call: its items and what it returned
    calls,      \* every config passed to set_tray, in order
    created,    \* number of WindowsTray instances stored in the global
    panicked,   \* a Rust panic (index out of bounds) has happened
    target_os,  \* cfg(target_os): the platform the crate was built for
    linuxState, \* the LinuxTrayState global: None until the first call
    macosState, \* the MacosTrayState global: None until the first call
    desc,       \* the Tray descriptor being built: None before Tray::new
    setters,    \* the setters applied to desc, in order, with their arguments
    trays,      \* every Tray passed to AppTrayExt::set_tray, in order
    builderCalls, \* every invocation of a menu builder closure, in order
    handled,    \* the latest message tray_procedure handled: None or Some
    events      \* every TrayEvent an event handler was invoked with

\* The state of the host application around the backend: what the
\* dispatcher and the window procedure have done.
hostVars == <<trays, builderCalls, handled, events>>

\* The state of the backends, of the operating system and of the host.
backendVars == <<hasGlobal, tray, COUNTER, windows, userData, boxes, menus,
                 shell, verbs, lastNid, builds, calls, created, panicked,
                 target_os, linuxState, macosState, hostVars>>

vars == <<hasGlobal, tray, COUNTER, windows, userData, boxes, menus, shell,
          verbs, lastNid, builds, calls, created, panicked,
          target_os, linuxState, macosState, desc, setters,
          trays, builderCalls, handled, events>>

----------------------------------------------------------------------------
(* Bounds of the model *)

MaxCalls == 3

MaxTipCalls == 2

MaxTipLen == 130

MaxMenuCalls == 1

MaxItems == 3

MaxPlatformCalls == 3

MaxSetters == 2

MaxAppCalls == 2

----------------------------------------------------------------------------
(* Program constants *)

SzTipLen == 128

NullHwnd == 0

\* Option<T>: None is the empty sequence, Some(x) the one-element sequence.
None == <<>>

Some(x) == <<x>>

IsSome(o) == o # <<>>

----------------------------------------------------------------------------
(* Strings and UTF-16 *)

\* A Rust string is a sequence of Unicode scalar values.  OsStr's
\* encode_wide yields one UTF-16 unit for a scalar of the basic plane and a
\* surrogate pair for any other.  (The string is split in halves so that
\* the evaluation stays shallow.)
RECURSIVE OsStrEncodeWide(_)
OsStrEncodeWide(s) ==
    IF s = <<>> THEN <<>>
    ELSE IF Len(s) = 1
    THEN LET c == s[1]
         IN  IF c < 65536 THEN <<c>>
             ELSE << 55296 + ((c - 65536) \div 1024),
                     56320 + ((c - 65536) % 1024) >>
    ELSE LET half == Len(s) \div 2
         IN  OsStrEncodeWide(SubSeq(s, 1, half)) \o
             OsStrEncodeWide(SubSeq(s, half + 1, Len(s)))

encode_wide(s) == OsStrEncodeWide(s) \o <<0>>

Min(a, b) == IF a < b THEN a ELSE b

\* Iterator::take(n)
Take(seq, n) == SubSeq(seq, 1, Min(n, Len(seq)))

\* A [u16; 128] array is written as its units up to the last one that is
\* not 0: every unit after them, up to index 127, is 0.
Compact(arr) ==
    LET nz == {i \in DOMAIN arr : arr[i] # 0}
    IN  SubSeq(arr, 1, IF nz = {} THEN 0
                       ELSE CHOOSE i \in nz : \A j \in nz : j <= i)

\* arr[i], for the 0-based index i.
TipUnit(arr, i) == IF i + 1 <= Len(arr) THEN arr[i + 1] ELSE 0

\* [0; 128]
ZeroTip == Compact([i \in 1..SzTipLen |-> 0])

\* for (i, &ch) in taken.iter().enumerate() { sz_tip[i] = ch; }
\* Unit i of taken (0-based) is written to sz_tip[i]; an index outside the
\* array panics (Rust checks array bounds).
WriteTip(buf, taken) ==
    [buf |-> Compact([i \in 1..SzTipLen |->
                         IF i <= Len(taken) THEN taken[i]
                         ELSE TipUnit(buf, i - 1)]),
     panic |-> Len(taken) > SzTipLen]

\* The flags and szTip that add_tray_icon_internal and
\* modify_tray_icon_internal build from their tooltip argument.
TipFlags(tooltip) ==
    IF IsSome(tooltip) THEN {"NIF_MESSAGE", "NIF_TIP"} ELSE {"NIF_MESSAGE"}

FillTip(tooltip) ==
    IF IsSome(tooltip)
    THEN WriteTip(ZeroTip, Take(encode_wide(tooltip[1]), SzTipLen))
    ELSE [buf |-> ZeroTip, panic |-> FALSE]

----------------------------------------------------------------------------
(* The operating system.  w is the record of the variables a native call   *)
(* reads and writes; every operator returns the new w (and a result).      *)

IsWindow(w, hwnd) == hwnd \in w.windows

IsRegistered(w, hwnd, id) == \E r \in w.shell : r.hWnd = hwnd /\ r.uID = id

\* Shell_NotifyIconW(verb, &nid).  envOk = FALSE is the shell refusing or
\* timing out: the call returns FALSE and registers, changes or removes
\* nothing.  NIM_ADD needs a window and an unused (hWnd, uID); NIM_MODIFY
\* and NIM_DELETE need the (hWnd, uID) to be registered.
Shell_NotifyIconW(w, verb, nid, envOk) ==
    LET live == IsRegistered(w, nid.hWnd, nid.uID)
        old == CHOOSE r \in w.shell : r.hWnd = nid.hWnd /\ r.uID = nid.uID
        ok == IF verb = "NIM_ADD"
              THEN envOk /\ IsWindow(w, nid.hWnd) /\ ~live
              ELSE envOk /\ live
        newShell ==
            IF ~ok THEN w.shell
            ELSE IF verb = "NIM_ADD"
            THEN w.shell \cup
                 {[hWnd |-> nid.hWnd, uID |-> nid.uID,
                   szTip |-> IF "NIF_TIP" \in nid.uFlags
                             THEN nid.szTip ELSE ZeroTip]}
            ELSE IF verb = "NIM_MODIFY"
            THEN (w.shell \ {old}) \cup
                 {[old EXCEPT !.szTip = IF "NIF_TIP" \in nid.uFlags
                                        THEN nid.szTip ELSE @]}
            ELSE w.shell \ {old}
        entry == [verb |-> verb, hWnd |-> nid.hWnd, uID |-> nid.uID,
                  live |-> w.shell # {}, result |-> ok, call |-> w.call]
    IN  [w |-> [w EXCEPT !.shell = newShell, !.verbs = Append(@, entry),
                         !.lastNid = Some(nid)],
         result |-> ok]

\* CreateWindowExW: a new window with an empty user-data slot, or an error.
CreateWindowExW(w, envOk) ==
    IF envOk
    THEN LET h == Cardinality(w.windows) + 1
         IN  [w |-> [w EXCEPT !.windows = @ \cup {h},
                              !.userData = [x \in w.windows \cup {h} |->
                                  IF x = h THEN 0 ELSE w.userData[x]]],
              hwnd |-> Some(h)]
    ELSE [w |-> w, hwnd |-> None]

\* GetWindowLongPtrW(hwnd, GWLP_USERDATA): 0 for a handle that is no window.
GetWindowLongPtrW(w, hwnd) == IF IsWindow(w, hwnd) THEN w.userData[hwnd] ELSE 0

\* SetWindowLongPtrW(hwnd, GWLP_USERDATA, ptr): no effect on a handle that
\* is no window.
SetWindowLongPtrW(w, hwnd, ptr) ==
    IF IsWindow(w, hwnd) THEN [w EXCEPT !.userData[hwnd] = ptr] ELSE w

\* Box::into_raw(Box::new(TrayUserData { hmenu })): the new pointer.
BoxNew(w, hmenu) ==
    [w |-> [w EXCEPT !.boxes = Append(@, [hmenu |-> hmenu, freed |-> FALSE])],
     ptr |-> Len(w.boxes) + 1]

\* drop(Box::from_raw(ptr)): TrayUserData has no Drop impl, so the HMENU it
\* names is not destroyed.
BoxDrop(w, ptr) == [w EXCEPT !.boxes[ptr].freed = TRUE]

----------------------------------------------------------------------------
(* window.rs *)

\* create_tray_window: the new handle, or the null handle on error.
create_tray_window(w, envOk) ==
    LET r == CreateWindowExW(w, envOk)
    IN  [w |-> r.w, hwnd |-> IF IsSome(r.hwnd) THEN r.hwnd[1] ELSE NullHwnd]

\* Faulty variant of AppendItems: the command id is the 0-based index.
RECURSIVE AppendItems_zero_based(_, _)
AppendItems_zero_based(items, index) ==
    IF index >= Len(items) THEN <<>>
    ELSE LET item == items[index + 1]
             id == index
             appended ==
                 CASE item.kind = "Separator" ->
                          <<[uFlags |-> "MF_SEPARATOR", uIDNewItem |-> id,
                             lpNewItem |-> ""]>>
                   [] item.kind = "Action" ->
                          <<[uFlags |-> "MF_STRING", uIDNewItem |-> id,
                             lpNewItem |-> item.name]>>
                   [] OTHER -> <<>>
         IN  appended \o AppendItems_zero_based(items, index + 1)

\* The loop of build_menu over items.iter().enumerate(), from `index` on:
\* the entries AppendMenuW adds to the menu, in order.  (AppendMenuW is
\* taken to succeed on the menu just created; its result is dropped or
\* logged.)
RECURSIVE AppendItems(_, _)
AppendItems(items, index) ==
    IF index >= Len(items) THEN <<>>
    ELSE LET item == items[index + 1]
             id == index + 1
             appended ==
                 CASE item.kind = "Separator" ->
                          <<[uFlags |-> "MF_SEPARATOR", uIDNewItem |-> id,
                             lpNewItem |-> ""]>>
                   [] item.kind = "Action" ->
                          <<[uFlags |-> "MF_STRING", uIDNewItem |-> id,
                             lpNewItem |-> item.name]>>
                   [] item.kind = "Submenu" -> <<>>
                   [] OTHER -> <<>>
         IN  appended \o AppendItems(items, index + 1)

\* build_menu(items): None when CreatePopupMenu fails, else the handle of a
\* new popup menu holding the appended entries.
build_menu(w, items, envOk) ==
    LET hmenu == IF envOk THEN Some(Len(w.menus) + 1) ELSE None
        log == [items |-> items, createOk |-> envOk, hmenu |-> hmenu,
                call |-> w.call]
    IN  IF ~envOk
        THEN [w |-> [w EXCEPT !.builds = Append(@, log)], hmenu |-> None]
        ELSE [w |-> [w EXCEPT !.menus = Append(@,
                                  [entries |-> AppendItems(items, 0),
                                   destroyed |-> FALSE]),
                              !.builds = Append(@, log)],
              hmenu |-> hmenu]

----------------------------------------------------------------------------
(* tray.rs: WindowsTray.  self is [tray_id, hwnd, visible, registered];    *)
(* config is [tooltip, visible, menu_items]; env says which native calls   *)
(* of this set_tray call the operating system lets succeed.                *)

\* WindowsTray::new
WindowsTray_new ==
    [tray_id |-> 0, hwnd |-> NullHwnd, visible |-> FALSE, registered |-> FALSE]

\* add_tray_icon_internal: flags and szTip from the tooltip, then NIM_ADD.
\* (tooltip is carried beside the struct: the argument szTip was built from.)
add_tray_icon_internal(w, hwnd, tray_id, tooltip, env) ==
    LET sz_tip == FillTip(tooltip)
        nid == [hWnd |-> hwnd, uID |-> tray_id, uFlags |-> TipFlags(tooltip),
                szTip |-> sz_tip.buf, tooltip |-> tooltip]
    IN  IF sz_tip.panic
        THEN [w |-> [w EXCEPT !.panicked = TRUE], result |-> FALSE]
        ELSE Shell_NotifyIconW(w, "NIM_ADD", nid, env.shellOk)

\* modify_tray_icon_internal: the same struct, then NIM_MODIFY.
modify_tray_icon_internal(w, hwnd, tray_id, tooltip, env) ==
    LET sz_tip == FillTip(tooltip)
        nid == [hWnd |-> hwnd, uID |-> tray_id, uFlags |-> TipFlags(tooltip),
                szTip |-> sz_tip.buf, tooltip |-> tooltip]
    IN  IF sz_tip.panic
        THEN [w |-> [w EXCEPT !.panicked = TRUE], result |-> FALSE]
        ELSE Shell_NotifyIconW(w, "NIM_MODIFY", nid, env.shellOk)

\* Faulty variant of add_tray_icon: a refused NIM_ADD is unwrapped instead
\* of logged, and panics.
add_tray_icon_unwrap(w, self, config, env) ==
    LET r == add_tray_icon_internal(w, self.hwnd, self.tray_id,
                                    config.tooltip, env)
    IN  IF r.result THEN r.w ELSE [r.w EXCEPT !.panicked = TRUE]

\* Faulty variant of add_tray_icon: the icon is modified, not added.
add_tray_icon_as_modify(w, self, config, env) ==
    modify_tray_icon_internal(w, self.hwnd, self.tray_id, config.tooltip,
                              env).w

\* Faulty variant of add_tray_icon: the registration takes a fresh
\* identifier.
add_tray_icon_fresh_id(w, self, config, env) ==
    add_tray_icon_internal(w, self.hwnd, self.tray_id + 1, config.tooltip,
                           env).w

\* add_tray_icon: the result of the native call is logged and dropped.
add_tray_icon(w, self, config, env) ==
    add_tray_icon_internal(w, self.hwnd, self.tray_id, config.tooltip, env).w

\* Faulty variant of modify_tray_icon: a registered icon is registered again.
modify_tray_icon_as_add(w, self, config, env) ==
    add_tray_icon_internal(w, self.hwnd, self.tray_id, config.tooltip, env).w

\* modify_tray_icon: the result of the native call is logged and dropped.
modify_tray_icon(w, self, config, env) ==
    modify_tray_icon_internal(w, self.hwnd, self.tray_id, config.tooltip, env).w

\* Faulty variant of remove_tray_icon: no verb is issued.
remove_tray_icon_skipped(w, self, env) == w

\* remove_tray_icon: a FALSE result is logged and dropped.
remove_tray_icon(w, self, env) ==
    Shell_NotifyIconW(w, "NIM_DELETE",
        [hWnd |-> self.hwnd, uID |-> self.tray_id, uFlags |-> {"NIF_MESSAGE"},
         szTip |-> ZeroTip, tooltip |-> None], env.shellOk).w

\* create_internal, from the menu block on (the window exists).
create_attach_menu(w, self, config, env) ==
    IF IsSome(config.menu_items)
    THEN LET b == build_menu(w, config.menu_items[1], env.menuOk)
         IN  IF IsSome(b.hmenu)
             THEN LET n == BoxNew(b.w, b.hmenu)
                  IN  SetWindowLongPtrW(n.w, self.hwnd, n.ptr)
             ELSE b.w
    ELSE w

create_internal(w, self, config, env) ==
    \* COUNTER.fetch_add(1): the old value is the id.  (The u32 wraps at
    \* 2^32, out of reach: a process creates one instance.)
    LET tray_id == w.COUNTER
        w1 == [w EXCEPT !.COUNTER = @ + 1]
        s1 == [self EXCEPT !.tray_id = tray_id, !.visible = config.visible]
    IN  IF ~config.visible THEN [w |-> w1, self |-> s1]
        ELSE LET cw == create_tray_window(w1, env.windowOk)
                 s2 == [s1 EXCEPT !.hwnd = cw.hwnd]
             IN  IF s2.hwnd = NullHwnd THEN [w |-> cw.w, self |-> s2]
                 ELSE LET w3 == create_attach_menu(cw.w, s2, config, env)
                          w4 == add_tray_icon(w3, s2, config, env)
                      IN  [w |-> w4, self |-> [s2 EXCEPT !.registered = TRUE]]

\* Faulty variant of update_attach_menu: the old box is dropped before the
\* new menu is built, so a failed build leaves the dropped box in the slot.
update_attach_menu_drop_first(w, self, config, env) ==
    IF IsSome(config.menu_items)
    THEN LET old_ptr == GetWindowLongPtrW(w, self.hwnd)
             w1 == IF old_ptr # 0 THEN BoxDrop(w, old_ptr) ELSE w
             b == build_menu(w1, config.menu_items[1], env.menuOk)
         IN  IF IsSome(b.hmenu)
             THEN LET n == BoxNew(b.w, b.hmenu)
                  IN  SetWindowLongPtrW(n.w, self.hwnd, n.ptr)
             ELSE b.w
    ELSE w

\* update, the menu block of the visible branch.
update_attach_menu(w, self, config, env) ==
    IF IsSome(config.menu_items)
    THEN LET b == build_menu(w, config.menu_items[1], env.menuOk)
         IN  IF IsSome(b.hmenu)
             THEN LET old_ptr == GetWindowLongPtrW(b.w, self.hwnd)
                      w1 == IF old_ptr # 0 THEN BoxDrop(b.w, old_ptr) ELSE b.w
                      n == BoxNew(w1, b.hmenu)
                  IN  SetWindowLongPtrW(n.w, self.hwnd, n.ptr)
             ELSE b.w
    ELSE w

\* Faulty variant of update: a hide deletes the icon whether or not the
\* instance is visible.
update_hide_always(w, self, config, env) ==
    IF ~config.visible
    THEN [w |-> remove_tray_icon(w, self, env),
          self |-> [self EXCEPT !.visible = FALSE, !.registered = FALSE]]
    ELSE LET w1 == IF ~self.registered
                   THEN add_tray_icon(w, self, config, env)
                   ELSE modify_tray_icon(w, self, config, env)
             s1 == IF ~self.registered
                   THEN [self EXCEPT !.registered = TRUE] ELSE self
             w2 == update_attach_menu(w1, s1, config, env)
         IN  [w |-> w2, self |-> [s1 EXCEPT !.visible = TRUE]]

\* Faulty variant of update: re-registering after a hide draws a new
\* identifier.
update_redraw_id(w, self, config, env) ==
    IF ~config.visible
    THEN IF self.visible
         THEN [w |-> remove_tray_icon(w, self, env),
               self |-> [self EXCEPT !.visible = FALSE, !.registered = FALSE]]
         ELSE [w |-> w, self |-> self]
    ELSE LET s0 == IF ~self.registered
                   THEN [self EXCEPT !.tray_id = w.COUNTER] ELSE self
             w0 == IF ~self.registered
                   THEN [w EXCEPT !.COUNTER = @ + 1] ELSE w
             w1 == IF ~self.registered
                   THEN add_tray_icon(w0, s0, config, env)
                   ELSE modify_tray_icon(w0, s0, config, env)
             s1 == IF ~self.registered
                   THEN [s0 EXCEPT !.registered = TRUE] ELSE s0
             w2 == update_attach_menu(w1, s1, config, env)
         IN  [w |-> w2, self |-> [s1 EXCEPT !.visible = TRUE]]

\* Faulty variant of update: re-registering after a hide creates the tray
\* window again and stores the new handle.
update_new_window(w, self, config, env) ==
    IF ~config.visible
    THEN IF self.visible
         THEN [w |-> remove_tray_icon(w, self, env),
               self |-> [self EXCEPT !.visible = FALSE, !.registered = FALSE]]
         ELSE [w |-> w, self |-> self]
    ELSE LET cw == IF ~self.registered
                   THEN create_tray_window(w, env.windowOk)
                   ELSE [w |-> w, hwnd |-> self.hwnd]
             s0 == [self EXCEPT !.hwnd = cw.hwnd]
             w1 == IF ~self.registered
                   THEN add_tray_icon(cw.w, s0, config, env)
                   ELSE modify_tray_icon(cw.w, s0, config, env)
             s1 == IF ~self.registered
                   THEN [s0 EXCEPT !.registered = TRUE] ELSE s0
             w2 == update_attach_menu(w1, s1, config, env)
         IN  [w |-> w2, self |-> [s1 EXCEPT !.visible = TRUE]]

update(w, self, config, env) ==
    IF ~config.visible
    THEN IF self.visible
         THEN [w |-> remove_tray_icon(w, self, env),
               self |-> [self EXCEPT !.visible = FALSE, !.registered = FALSE]]
         ELSE [w |-> w, self |-> self]
    ELSE LET w1 == IF ~self.registered
                   THEN add_tray_icon(w, self, config, env)
                   ELSE modify_tray_icon(w, self, config, env)
             s1 == IF ~self.registered
                   THEN [self EXCEPT !.registered = TRUE] ELSE self
             w2 == update_attach_menu(w1, s1, config, env)
         IN  [w |-> w2, self |-> [s1 EXCEPT !.visible = TRUE]]

\* Faulty variant of update_tray: every call creates a new instance.
update_tray_always_new(w, t, config, env) ==
    LET r == create_internal(w, WindowsTray_new, config, env)
    IN  [w |-> [r.w EXCEPT !.created = @ + 1], tray |-> Some(r.self)]

\* WindowsTrayState::update_tray on the Option<WindowsTray> t.
update_tray(w, t, config, env) ==
    IF IsSome(t)
    THEN LET r == update(w, t[1], config, env)
         IN  [w |-> r.w, tray |-> Some(r.self)]
    ELSE LET r == create_internal(w, WindowsTray_new, config, env)
         IN  [w |-> [r.w EXCEPT !.created = @ + 1], tray |-> Some(r.self)]

\* WindowsTrayState::new
WindowsTrayState_new == None

----------------------------------------------------------------------------
(* The state machine *)

World ==
    [COUNTER |-> COUNTER, windows |-> windows, userData |-> userData,
     boxes |-> boxes, menus |-> menus, shell |-> shell, verbs |-> verbs,
     lastNid |-> lastNid, builds |-> builds,
     created |-> created, panicked |-> panicked, call |-> Len(calls) + 1]

Init ==
    /\ hasGlobal = FALSE
    /\ tray = None
    /\ COUNTER = 0
    /\ windows = {}
    /\ userData = << >>
    /\ boxes = << >>
    /\ menus = << >>
    /\ shell = {}
    /\ verbs = << >>
    /\ lastNid = None
    /\ builds = << >>
    /\ calls = << >>
    /\ created = 0
    /\ panicked = FALSE
    /\ target_os = "windows"
    /\ linuxState = None
    /\ macosState = None
    /\ desc = None
    /\ setters = << >>
    /\ trays = << >>
    /\ builderCalls = << >>
    /\ handled = << >>
    /\ events = << >>

\* WindowsTray::set_tray(app, config): the global is created on first use,
\* then updated in place.
WindowsTray_set_tray(config, env) ==
    \E r \in {update_tray(World,
                           IF hasGlobal THEN tray ELSE WindowsTrayState_new,
                           config, env)} :
        /\ ~panicked
        /\ hasGlobal' = TRUE
        /\ tray' = r.tray
        /\ COUNTER' = r.w.COUNTER
        /\ windows' = r.w.windows
        /\ userData' = r.w.userData
        /\ boxes' = r.w.boxes
        /\ menus' = r.w.menus
        /\ shell' = r.w.shell
        /\ verbs' = r.w.verbs
        /\ lastNid' = r.w.lastNid
        /\ builds' = r.w.builds
        /\ created' = r.w.created
        /\ panicked' = r.w.panicked
        /\ calls' = Append(calls, config)

\* A WindowsTray::set_tray call made on its own: nothing else changes.
SetTray(config, env) ==
    /\ WindowsTray_set_tray(config, env)
    /\ UNCHANGED <<target_os, linuxState, macosState, desc, setters, hostVars>>

Envs == [windowOk : BOOLEAN, shellOk : BOOLEAN, menuOk : BOOLEAN]

\* The inputs of the lifecycle specification.
Ready == <<82, 101, 97, 100, 121>>

Busy == <<66, 117, 115, 121>>

ShowItem == [kind |-> "Action", name |-> "Show"]

QuitItem == [kind |-> "Action", name |-> "Quit"]

SeparatorItem == [kind |-> "Separator", name |-> ""]

SubmenuItem == [kind |-> "Submenu", name |-> "More"]

Configs ==
    [tooltip : {None, Some(Ready), Some(Busy)},
     visible : BOOLEAN,
     menu_items : {None, Some(<<ShowItem, SeparatorItem, QuitItem>>)}]

Next ==
    /\ Len(calls) < MaxCalls
    /\ \E config \in Configs, env \in Envs : SetTray(config, env)

Spec == Init /\ [][Next]_vars

\* The inputs of the tooltip specification: tooltips of 0, 1 and
\* SzTipLen - 2 .. MaxTipLen code points, all in the basic plane or led by
\* one supplementary-plane character (two UTF-16 units).
TipLens == {0, 1} \cup ((SzTipLen - 2) .. MaxTipLen)

Tooltips ==
    {[i \in 1..n |-> 120] : n \in TipLens} \cup
    {[i \in 1..n |-> IF i = 1 THEN 128512 ELSE 120] : n \in TipLens \ {0}}

TipConfigs ==
    [tooltip : {None} \cup {Some(t) : t \in Tooltips},
     visible : {TRUE},
     menu_items : {None}]

NextTip ==
    /\ Len(calls) < MaxTipCalls
    /\ \E config \in TipConfigs, env \in Envs : SetTray(config, env)

SpecTip == Init /\ [][NextTip]_vars

\* The inputs of the menu specification: every list of at most MaxItems
\* items drawn from an action, a separator and a submenu.
RECURSIVE ItemLists(_)
ItemLists(n) ==
    IF n = 0 THEN {<< >>}
    ELSE LET shorter == ItemLists(n - 1)
         IN  shorter \cup
             {Append(l, i) : l \in {x \in shorter : Len(x) = n - 1},
                             i \in {ShowItem, SeparatorItem, SubmenuItem}}

MenuConfigs ==
    [tooltip : {None},
     visible : {TRUE},
     menu_items : {None} \cup {Some(l) : l \in ItemLists(MaxItems)}]

NextMenu ==
    /\ Len(calls) < MaxMenuCalls
    /\ \E config \in MenuConfigs, env \in Envs : SetTray(config, env)

SpecMenu == Init /\ [][NextMenu]_vars

----------------------------------------------------------------------------
(* tray-linux and tray-macos: the instance is [visible]; no native call is *)
(* made (both backends are stubs that log).                                *)

\* LinuxTray::new
LinuxTray_new == [visible |-> FALSE]

\* LinuxTray::create_internal
linux_create_internal(self, config) == [self EXCEPT !.visible = config.visible]

\* Faulty variant of LinuxTray::update: a visible tray stays visible.
linux_update_sticky(self, config) ==
    [self EXCEPT !.visible = @ \/ config.visible]

\* LinuxTray::update
linux_update(self, config) == [self EXCEPT !.visible = config.visible]

\* LinuxTrayState::new
LinuxTrayState_new == [tray |-> None]

\* LinuxTrayState::update_tray
linux_update_tray(state, config) ==
    IF IsSome(state.tray)
    THEN [state EXCEPT !.tray = Some(linux_update(state.tray[1], config))]
    ELSE [state EXCEPT !.tray =
              Some(linux_create_internal(LinuxTray_new, config))]

\* LinuxTray::set_tray(app, config)
LinuxSetTray(config) ==
    /\ linuxState' = Some(linux_update_tray(
                              IF IsSome(linuxState) THEN linuxState[1]
                              ELSE LinuxTrayState_new, config))
    /\ calls' = Append(calls, config)
    /\ UNCHANGED <<hasGlobal, tray, COUNTER, windows, userData, boxes, menus,
                   shell, verbs, lastNid, builds, created, panicked,
                   target_os, macosState, desc, setters, hostVars>>

\* MacosTray::new
MacosTray_new == [visible |-> FALSE]

\* Faulty variant of MacosTray::create_internal: a created tray is visible.
macos_create_internal_shown(self, config) == [self EXCEPT !.visible = TRUE]

\* MacosTray::create_internal
macos_create_internal(self, config) == [self EXCEPT !.visible = config.visible]

\* MacosTray::update
macos_update(self, config) == [self EXCEPT !.visible = config.visible]

\* MacosTrayState::new
MacosTrayState_new == [tray |-> None]

\* MacosTrayState::update_tray
macos_update_tray(state, config) ==
    IF IsSome(state.tray)
    THEN [state EXCEPT !.tray = Some(macos_update(state.tray[1], config))]
    ELSE [state EXCEPT !.tray =
              Some(macos_create_internal(MacosTray_new, config))]

\* MacosTray::set_tray(app, config)
MacosSetTray(config) ==
    /\ macosState' = Some(macos_update_tray(
                              IF IsSome(macosState) THEN macosState[1]
                              ELSE MacosTrayState_new, config))
    /\ calls' = Append(calls, config)
    /\ UNCHANGED <<hasGlobal, tray, COUNTER, windows, userData, boxes, menus,
                   shell, verbs, lastNid, builds, created, panicked,
                   target_os, linuxState, desc, setters, hostVars>>

\* The platform specification: the crate built for each of its three
\* targets.  set_tray_platform is the one dispatcher compiled in.
TargetOs == {"windows", "linux", "macos"}

InitPlatforms ==
    /\ hasGlobal = FALSE
    /\ tray = None
    /\ COUNTER = 0
    /\ windows = {}
    /\ userData = << >>
    /\ boxes = << >>
    /\ menus = << >>
    /\ shell = {}
    /\ verbs = << >>
    /\ lastNid = None
    /\ builds = << >>
    /\ calls = << >>
    /\ created = 0
    /\ panicked = FALSE
    /\ target_os \in TargetOs
    /\ linuxState = None
    /\ macosState = None
    /\ desc = None
    /\ setters = << >>
    /\ trays = << >>
    /\ builderCalls = << >>
    /\ handled = << >>
    /\ events = << >>

PlatformConfigs ==
    [tooltip : {None, Some(Ready)},
     visible : BOOLEAN,
     menu_items : {None, Some(<<ShowItem>>)}]

SetTrayWindows ==
    /\ target_os = "windows"
    /\ \E config \in PlatformConfigs, env \in Envs : SetTray(config, env)

SetTrayLinux ==
    /\ target_os = "linux"
    /\ \E config \in PlatformConfigs : LinuxSetTray(config)

SetTrayMacos ==
    /\ target_os = "macos"
    /\ \E config \in PlatformConfigs : MacosSetTray(config)

NextPlatforms ==
    /\ Len(calls) < MaxPlatformCalls
    /\ (SetTrayWindows \/ SetTrayLinux \/ SetTrayMacos)

SpecPlatforms == InitPlatforms /\ [][NextPlatforms]_vars

----------------------------------------------------------------------------
(* types.rs: the Tray descriptor and its builder.  A closure is named by   *)
(* a string; an image and a TrayIcon carry their bytes.                    *)

\* Faulty variant of Tray::new: the descriptor starts hidden.
Tray_new_hidden ==
    [icon |-> None, title |-> None, tooltip |-> None, visible |-> FALSE,
     menu_builder |-> None, icon_data |-> None, event_handler |-> None]

\* Tray::new
Tray_new ==
    [icon |-> None, title |-> None, tooltip |-> None, visible |-> TRUE,
     menu_builder |-> None, icon_data |-> None, event_handler |-> None]

\* Default for Tray
Tray_default == Tray_new

\* TrayIcon::Image { data }
TrayIcon_Image(data) == [variant |-> "Image", data |-> data]

\* Tray::icon: the argument is not used; a placeholder with no bytes is
\* stored.
Tray_icon(self, icon) == [self EXCEPT !.icon = Some(TrayIcon_Image(<< >>))]

\* Tray::title
Tray_title(self, title) == [self EXCEPT !.title = Some(title)]

\* Tray::tooltip
Tray_tooltip(self, tooltip) == [self EXCEPT !.tooltip = Some(tooltip)]

\* Tray::visible
Tray_visible(self, visible) == [self EXCEPT !.visible = visible]

\* Tray::menu
Tray_menu(self, builder) == [self EXCEPT !.menu_builder = Some(builder)]

\* Tray::on_event
Tray_on_event(self, handler) == [self EXCEPT !.event_handler = Some(handler)]

\* The builder as a state machine: the descriptor is constructed, then
\* setters are chained on it.
TrayNew ==
    /\ desc = None
    /\ desc' = Some(Tray_new)
    /\ UNCHANGED <<setters, backendVars>>

TrayDefault ==
    /\ desc = None
    /\ desc' = Some(Tray_default)
    /\ UNCHANGED <<setters, backendVars>>

Chain(setter, arg, result) ==
    /\ IsSome(desc)
    /\ Len(setters) < MaxSetters
    /\ desc' = Some(result)
    /\ setters' = Append(setters, [setter |-> setter, arg |-> Some(arg)])
    /\ UNCHANGED backendVars

\* The arguments the setters are given.
Images == {<<137, 80>>, <<255, 216>>}

Titles == {"Inbox", "Outbox"}

MenuBuilders == {"main_menu", "short_menu"}

EventHandlers == {"on_click", "on_any"}

SetIcon == \E image \in Images : Chain("icon", image, Tray_icon(desc[1], image))

SetTitle == \E title \in Titles : Chain("title", title, Tray_title(desc[1], title))

SetTooltip ==
    \E tooltip \in {Ready, Busy} :
        Chain("tooltip", tooltip, Tray_tooltip(desc[1], tooltip))

SetVisible ==
    \E visible \in BOOLEAN :
        Chain("visible", visible, Tray_visible(desc[1], visible))

SetMenu ==
    \E builder \in MenuBuilders :
        Chain("menu", builder, Tray_menu(desc[1], builder))

SetOnEvent ==
    \E handler \in EventHandlers :
        Chain("on_event", handler, Tray_on_event(desc[1], handler))

NextBuilder ==
    \/ TrayNew
    \/ TrayDefault
    \/ SetIcon
    \/ SetTitle
    \/ SetTooltip
    \/ SetVisible
    \/ SetMenu
    \/ SetOnEvent

SpecBuilder == Init /\ [][NextBuilder]_vars

----------------------------------------------------------------------------
(* app_ext.rs: the dispatcher.  A menu builder closure is named by a       *)
(* string; invoking it with the host context returns its items.            *)

\* builder(self): the items the closure returns for the host context cx.
InvokeBuilder(builder, cx) ==
    IF builder = "main_menu" THEN <<ShowItem, SeparatorItem, QuitItem>>
    ELSE <<QuitItem>>

\* Faulty variant of MenuItemsOf: the builder is invoked only for a visible
\* tray.
MenuItemsOf_visible_only(t, cx) ==
    IF IsSome(t.menu_builder) /\ t.visible
    THEN Some(InvokeBuilder(t.menu_builder[1], cx))
    ELSE None

\* tray.menu_builder.as_ref().map(|builder| builder(self))
MenuItemsOf(t, cx) ==
    IF IsSome(t.menu_builder)
    THEN Some(InvokeBuilder(t.menu_builder[1], cx))
    ELSE None

\* set_tray_platform (windows): the config built from the tray and the
\* items; title, icon and event_handler are not forwarded.
WindowsTrayConfig(t, menu_items) ==
    [tooltip |-> t.tooltip, visible |-> t.visible, menu_items |-> menu_items]

\* AppTrayExt::set_tray(self, tray): the builder is invoked first, then the
\* platform backend is called with the config.
AppSetTray(t, env) ==
    LET menu_items == MenuItemsOf(t, "App")
    IN  /\ builderCalls' =
               IF IsSome(menu_items)
               THEN Append(builderCalls,
                           [builder |-> t.menu_builder[1], cx |-> "App",
                            call |-> Len(trays) + 1,
                            configsBefore |-> Len(calls),
                            items |-> menu_items[1]])
               ELSE builderCalls
        /\ trays' = Append(trays, t)
        /\ WindowsTray_set_tray(WindowsTrayConfig(t, menu_items), env)
        /\ UNCHANGED <<target_os, linuxState, macosState, desc, setters,
                       handled, events>>

----------------------------------------------------------------------------
(* window.rs: the window procedure.  A message is [msg, lparam]; lparam is *)
(* an isize given as its high and low 32-bit words.                        *)

WM_USER_TRAYICON == 6002

WM_PAINT == 15

WM_MOUSEMOVE == 512

WM_LBUTTONUP == 514

WM_RBUTTONUP == 517

WM_MBUTTONUP == 520

\* lparam.0 as u32: the low 32 bits.
AsU32(lparam) == lparam.lo

\* Faulty variant of show_tray_menu: the popup is tracked without taking
\* the foreground first.
show_tray_menu_unfocused(hwnd, hmenu, cursorOk) ==
    IF cursorOk THEN <<"GetCursorPos", "TrackPopupMenu">>
    ELSE <<"GetCursorPos">>

\* show_tray_menu(hwnd, hmenu): the native calls it makes, in order.  The
\* results of SetForegroundWindow and TrackPopupMenu are dropped.
show_tray_menu(hwnd, hmenu, cursorOk) ==
    IF cursorOk
    THEN <<"GetCursorPos", "SetForegroundWindow", "TrackPopupMenu">>
    ELSE <<"GetCursorPos">>

\* What reading user_data.hmenu through the pointer ptr can give: the field
\* of a live box; anything at all for a box that has been dropped.
ReadHmenu(w, ptr) ==
    IF w.boxes[ptr].freed
    THEN {None} \cup {Some(h) : h \in 0..Len(w.menus)}
    ELSE {w.boxes[ptr].hmenu}

\* Faulty variant of tray_procedure: a left click is turned into a
\* TrayEvent for the event handler.
tray_procedure_emits(w, hwnd, msg, lparam, cursorOk) ==
    LET event == AsU32(lparam)
        ptr == GetWindowLongPtrW(w, hwnd)
        quiet == [ptr |-> 0, dangling |-> FALSE, hmenu |-> None,
                  native |-> <<"DefWindowProcW">>, events |-> << >>]
    IN  IF msg = WM_USER_TRAYICON /\ event = WM_LBUTTONUP
        THEN {[quiet EXCEPT !.events = <<"Click">>]}
        ELSE IF msg = WM_USER_TRAYICON /\ event = WM_RBUTTONUP /\ ptr # 0
        THEN {[ptr |-> ptr, dangling |-> w.boxes[ptr].freed, hmenu |-> h,
               native |-> (IF IsSome(h)
                           THEN show_tray_menu(hwnd, h[1], cursorOk)
                           ELSE << >>) \o <<"DefWindowProcW">>,
               events |-> << >>] : h \in ReadHmenu(w, ptr)}
        ELSE {quiet}

\* tray_procedure(hwnd, msg, wparam, lparam): the outcomes it can have.
\* Each is the pointer read from the user-data slot (0 if not read or
\* null), whether that pointer dangles, the menu handle read, the native
\* calls made in order, and the TrayEvents handed to an event handler.
tray_procedure(w, hwnd, msg, lparam, cursorOk) ==
    LET event == AsU32(lparam)
        ptr == GetWindowLongPtrW(w, hwnd)
        quiet == [ptr |-> 0, dangling |-> FALSE, hmenu |-> None,
                  native |-> <<"DefWindowProcW">>, events |-> << >>]
    IN  IF msg = WM_USER_TRAYICON /\ event = WM_RBUTTONUP /\ ptr # 0
        THEN {[ptr |-> ptr, dangling |-> w.boxes[ptr].freed, hmenu |-> h,
               native |-> (IF IsSome(h)
                           THEN show_tray_menu(hwnd, h[1], cursorOk)
                           ELSE << >>) \o <<"DefWindowProcW">>,
               events |-> << >>] : h \in ReadHmenu(w, ptr)}
        ELSE {quiet}

\* The operating system delivers one message to tray_procedure, between
\* two set_tray calls, for a window of the tray class.  handled keeps what
\* the procedure read and did for this message, whether GetCursorPos could
\* succeed, and the number of set_tray calls made before it.
WndProc(hwnd, m, cursorOk) ==
    /\ ~panicked
    /\ hwnd \in windows
    /\ \E out \in tray_procedure(World, hwnd, m.msg, m.lparam, cursorOk) :
           /\ handled' = Some(
                  [hwnd |-> hwnd, msg |-> m.msg, lparam |-> m.lparam,
                   cursorOk |-> cursorOk,
                   slot |-> GetWindowLongPtrW(World, hwnd),
                   ptr |-> out.ptr, dangling |-> out.dangling,
                   hmenu |-> out.hmenu, native |-> out.native,
                   call |-> Len(calls)])
           /\ events' = events \o out.events
    /\ UNCHANGED <<hasGlobal, tray, COUNTER, windows, userData, boxes, menus,
                   shell, verbs, lastNid, builds, calls, created, panicked,
                   target_os, linuxState, macosState, desc, setters,
                   trays, builderCalls>>

\* The host specification: AppTrayExt::set_tray calls with descriptors
\* made by the builder, and messages delivered between them.
AppTrays ==
    {[Tray_new EXCEPT !.tooltip = tooltip, !.visible = visible,
                      !.menu_builder = builder, !.event_handler = handler] :
        tooltip \in {None},
        visible \in BOOLEAN,
        builder \in {None, Some("main_menu"), Some("short_menu")},
        handler \in {None, Some("on_click")}}

Messages ==
    {[msg |-> WM_USER_TRAYICON, lparam |-> [hi |-> 0, lo |-> e]] :
        e \in {WM_MOUSEMOVE, WM_LBUTTONUP, WM_RBUTTONUP, WM_MBUTTONUP}}
    \cup {[msg |-> WM_USER_TRAYICON, lparam |-> [hi |-> 1, lo |-> WM_RBUTTONUP]],
          [msg |-> WM_PAINT, lparam |-> [hi |-> 0, lo |-> WM_RBUTTONUP]]}

AppCall ==
    /\ Len(trays) < MaxAppCalls
    /\ \E t \in AppTrays, env \in Envs : AppSetTray(t, env)

Message ==
    \E hwnd \in windows, m \in Messages, cursorOk \in BOOLEAN :
        WndProc(hwnd, m, cursorOk)

NextApp == AppCall \/ Message

SpecApp == Init /\ [][NextApp]_vars

----------------------------------------------------------------------------
(* Vocabulary of the properties *)

\* The verbs issued so far, and those issued by the n-th set_tray call.
VerbNames == [i \in DOMAIN verbs |-> verbs[i].verb]

VerbsOfCall(n) == SelectSeq(verbs, LAMBDA e : e.call = n)

VisibleOfCalls == [i \in DOMAIN calls |-> calls[i].visible]

\* Popup menus that exist: the source has no DestroyMenu call, so no menu
\* ever gets destroyed = TRUE.
LiveMenus == {h \in DOMAIN menus : ~menus[h].destroyed}

\* The native icon of the instance is registered with the shell.
IconRegistered ==
    IsSome(tray) /\ \E r \in shell : r.hWnd = tray[1].hwnd /\ r.uID = tray[1].tray_id

\* The menu handle behind the user-data slot of the instance's window: what
\* tray_procedure reads on WM_RBUTTONUP (None when the slot is null or the
\* instance has no window).
AttachedMenu ==
    IF IsSome(tray) /\ GetWindowLongPtrW(World, tray[1].hwnd) # 0
    THEN boxes[GetWindowLongPtrW(World, tray[1].hwnd)].hmenu
    ELSE None

\* The entries of the attached menu.
AttachedEntries ==
    IF IsSome(AttachedMenu) THEN Some(menus[AttachedMenu[1]].entries) ELSE None

\* TrayUserData boxes that have not been dropped.
LiveBoxes == {p \in DOMAIN boxes : ~boxes[p].freed}

\* The last set_tray call, and the verbs and build_menu calls it made.
LastCall == calls[Len(calls)]

BuildsOfCall(n) == SelectSeq(builds, LAMBDA b : b.call = n)

----------------------------------------------------------------------------
(* C1 *)

\* C1: the shell never holds more than one icon registration, and no NIM_ADD
\* is issued while a registration made by an earlier NIM_ADD is still live.
C1_AtMostOneRegistration ==
    /\ Cardinality(shell) <= 1
    /\ \A i \in DOMAIN verbs : verbs[i].verb = "NIM_ADD" => ~verbs[i].live

----------------------------------------------------------------------------
(* C2 *)

\* C2: in every reachable state, failures of native calls included, a
\* backend whose visible flag is true has its icon registered with the shell.
C2_VisibleImpliesRegistered ==
    (IsSome(tray) /\ tray[1].visible) => IconRegistered

----------------------------------------------------------------------------
(* C3 *)

\* C3: from no instance, set_tray(visible=true), set_tray(visible=false),
\* set_tray(visible=true) issues exactly the verbs add, delete, add.
C3_AddDeleteAdd ==
    VisibleOfCalls = <<TRUE, FALSE, TRUE>> =>
        VerbNames = <<"NIM_ADD", "NIM_DELETE", "NIM_ADD">>

----------------------------------------------------------------------------
(* C4 *)

\* C4: a set_tray(visible=true) call made while the instance's icon is
\* registered (its registered flag is set) issues exactly one verb, NIM_MODIFY,
\* for the instance's window and identifier and with the call's tooltip:
\* neither NIM_DELETE nor NIM_ADD.
C4_ModifyInPlace ==
    [][ (/\ IsSome(tray)
         /\ tray[1].registered
         /\ Len(calls') = Len(calls) + 1
         /\ calls'[Len(calls')].visible)
        => (/\ Len(verbs') = Len(verbs) + 1
            /\ SubSeq(verbs', 1, Len(verbs)) = verbs
            /\ verbs'[Len(verbs')].verb = "NIM_MODIFY"
            /\ verbs'[Len(verbs')].hWnd = tray[1].hwnd
            /\ verbs'[Len(verbs')].uID = tray[1].tray_id
            /\ lastNid'[1].tooltip = calls'[Len(calls')].tooltip) ]_vars

\* Tooltip "Ready" then tooltip "Busy": the second call modified the live
\* registration in place, which now carries "Busy".
C4_Witness ==
    LET n == Len(calls)
    IN  /\ n >= 2
        /\ calls[n - 1].visible /\ calls[n - 1].tooltip = Some(Ready)
        /\ calls[n].visible /\ calls[n].tooltip = Some(Busy)
        /\ VerbsOfCall(n) # << >>
        /\ VerbsOfCall(n)[1].verb = "NIM_MODIFY"
        /\ VerbsOfCall(n)[1].result
        /\ \E r \in shell : r.szTip = OsStrEncodeWide(Busy)

----------------------------------------------------------------------------
(* C5 *)

----------------------------------------------------------------------------
(* C6 *)

\* C6: the szTip passed to NIM_ADD and NIM_MODIFY holds the first
\* min(len, 127) UTF-16 units of the tooltip followed by a 0 terminator,
\* nothing is written past index 127, and filling it never panics.
C6_TooltipTruncated ==
    /\ ~panicked
    /\ (IsSome(lastNid) /\ IsSome(lastNid[1].tooltip)) =>
           LET units == OsStrEncodeWide(lastNid[1].tooltip[1])
               k == Min(Len(units), SzTipLen - 1)
           IN  /\ Len(lastNid[1].szTip) <= SzTipLen
               /\ \A i \in 0..(k - 1) :
                      TipUnit(lastNid[1].szTip, i) = units[i + 1]
               /\ TipUnit(lastNid[1].szTip, k) = 0

----------------------------------------------------------------------------
(* C7 *)

\* C7: at most one popup menu created by the backend is live: attaching a
\* new menu releases the HMENU attached before.
C7_OneLiveMenu == Cardinality(LiveMenus) <= 1

----------------------------------------------------------------------------
(* C8 *)

\* What the claim expects of build_menu: the Action and Separator items in
\* their order, each with its 1-based position in the list as command id.
ExpectedEntries(items) ==
    LET positions == [i \in 1..Len(items) |-> i]
        kept == SelectSeq(positions,
                          LAMBDA i : items[i].kind \in {"Action", "Separator"})
    IN  [k \in 1..Len(kept) |->
            IF items[kept[k]].kind = "Action"
            THEN [uFlags |-> "MF_STRING", uIDNewItem |-> kept[k],
                  lpNewItem |-> items[kept[k]].name]
            ELSE [uFlags |-> "MF_SEPARATOR", uIDNewItem |-> kept[k],
                  lpNewItem |-> ""]]

----------------------------------------------------------------------------
(* C9 *)

\* C9: the global state holds at most one instance: none before the first
\* set_tray call, and from the first call on exactly the one instance that
\* call created; no later call creates or stores another.
C9_SingleInstance ==
    /\ Len(tray) <= 1
    /\ created <= 1
    /\ calls = << >> => (~hasGlobal /\ tray = None /\ created = 0)
    /\ calls # << >> => (hasGlobal /\ IsSome(tray) /\ created = 1)

\* Several set_tray calls were made and the one instance is still there.
C9_Witness == Len(calls) >= 3 /\ IsSome(tray) /\ created = 1

----------------------------------------------------------------------------
(* C10 *)

\* C10: COUNTER starts at 0 and counts the identifiers handed out, one per
\* instance created; the first instance holds identifier 0 in every later
\* state, and every verb is issued for that identifier.
C10_IdentifierFromCounter ==
    /\ COUNTER = created
    /\ ~hasGlobal => COUNTER = 0
    /\ IsSome(tray) => tray[1].tray_id = 0 /\ COUNTER = 1
    /\ \A i \in DOMAIN verbs : verbs[i].uID = 0

\* The instance was hidden and shown again and still holds identifier 0.
C10_Witness ==
    /\ Len(calls) >= 3
    /\ IsSome(tray) /\ tray[1].tray_id = 0
    /\ \E i \in DOMAIN verbs : verbs[i].call = 3 /\ verbs[i].verb = "NIM_ADD"

----------------------------------------------------------------------------
(* C11 *)

\* C11: set_tray is idempotent: a set_tray call with the descriptor of the
\* call before it leaves the instance (flags, window handle, identifier),
\* the windows, the shell's registrations, the entries of the attached menu
\* and the live popup menus as the call before it left them.
C11_IdempotentUpsert ==
    [][ (/\ calls # << >>
         /\ Len(calls') = Len(calls) + 1
         /\ calls'[Len(calls')] = LastCall)
        => (/\ tray' = tray
            /\ windows' = windows
            /\ shell' = shell
            /\ AttachedEntries' = AttachedEntries
            /\ LiveMenus' = LiveMenus) ]_vars

----------------------------------------------------------------------------
(* C12 *)

\* C12: whatever native calls have failed, no set_tray call has panicked
\* (a panic is the one thing that keeps SetTray from being taken again, so
\* every later call completes too), and every call made has stored or kept
\* the one instance in the global state.
C12_NoFatalFailure ==
    /\ ~panicked
    /\ calls # << >> => (hasGlobal /\ IsSome(tray) /\ created = 1)

\* Window creation failed in the first call, NIM_DELETE in the second,
\* NIM_ADD and CreatePopupMenu in the third: all three calls completed and
\* the instance is stored.
C12_Witness ==
    /\ Len(calls) = 3
    /\ calls[1].visible /\ IsSome(tray) /\ tray[1].hwnd = NullHwnd
    /\ \E v \in DOMAIN verbs :
           verbs[v].call = 2 /\ verbs[v].verb = "NIM_DELETE" /\ ~verbs[v].result
    /\ \E v \in DOMAIN verbs :
           verbs[v].call = 3 /\ verbs[v].verb = "NIM_ADD" /\ ~verbs[v].result
    /\ \E b \in DOMAIN builds : builds[b].call = 3 /\ ~builds[b].createOk

----------------------------------------------------------------------------
(* C13 *)

\* The backend instance of the platform built for, if one is stored.
PlatformTray ==
    CASE target_os = "windows" -> tray
      [] target_os = "linux" ->
             IF IsSome(linuxState) THEN linuxState[1].tray ELSE None
      [] target_os = "macos" ->
             IF IsSome(macosState) THEN macosState[1].tray ELSE None

\* C13: on each of the three backends, after every set_tray call the
\* instance is stored and its visible flag is the visible value of the
\* latest call.
C13_LastWriterWins ==
    calls # << >> =>
        (IsSome(PlatformTray) /\ PlatformTray[1].visible = LastCall.visible)

\* The flag followed three calls that changed it twice, on Linux.
C13_Witness ==
    /\ target_os = "linux"
    /\ VisibleOfCalls = <<TRUE, FALSE, TRUE>>
    /\ PlatformTray[1].visible

----------------------------------------------------------------------------
(* C14 *)

\* C14: a descriptor made by Tray::new() or Tray::default(), no setter
\* applied, is visible and has no icon, no title, no tooltip, no menu
\* builder and no event handler.
C14_NewDescriptor ==
    (IsSome(desc) /\ setters = << >>) =>
        /\ desc[1].visible = TRUE
        /\ desc[1].icon = None
        /\ desc[1].title = None
        /\ desc[1].tooltip = None
        /\ desc[1].menu_builder = None
        /\ desc[1].event_handler = None

\* A descriptor has been constructed and no setter applied.
C14_Witness == IsSome(desc) /\ setters = << >> /\ desc[1].visible

----------------------------------------------------------------------------
(* C15 *)

\* The argument of the last call of `setter` in the chain, None if it was
\* never called.
LastArg(setter) ==
    LET at == {i \in DOMAIN setters : setters[i].setter = setter}
    IN  IF at = {} THEN None
        ELSE setters[CHOOSE i \in at : \A j \in at : j <= i].arg

\* C15: after any chain of setters each field of the descriptor holds the
\* value given to the last call of its own setter, whatever other setters
\* were called and in what order, or its value in Tray::new() if its setter
\* was never called; building the descriptor makes no native call and
\* creates no backend state.
C15_SettersFrame ==
    IsSome(desc) =>
        /\ desc[1].title = LastArg("title")
        /\ desc[1].tooltip = LastArg("tooltip")
        /\ desc[1].visible =
               (IF IsSome(LastArg("visible")) THEN LastArg("visible")[1] ELSE TRUE)
        /\ desc[1].menu_builder = LastArg("menu")
        /\ desc[1].event_handler = LastArg("on_event")
        /\ desc[1].icon =
               (IF IsSome(LastArg("icon"))
                THEN Some(TrayIcon_Image(LastArg("icon")[1])) ELSE None)
        /\ desc[1].icon_data = None
        /\ ~hasGlobal /\ tray = None /\ windows = {} /\ menus = << >>
        /\ verbs = << >> /\ builds = << >> /\ shell = {}

----------------------------------------------------------------------------
(* C16 *)

\* C16: after a first set_tray call with visible = false the backend is
\* Hidden (visible and registered clear), no verb has been issued and
\* nothing is registered, and the instance holds the handle of a native
\* window that exists.
C16_HiddenFirstHasWindow ==
    (Len(calls) = 1 /\ ~calls[1].visible) =>
        /\ IsSome(tray)
        /\ ~tray[1].visible /\ ~tray[1].registered
        /\ verbs = << >> /\ shell = {}
        /\ tray[1].hwnd # NullHwnd
        /\ IsWindow(World, tray[1].hwnd)

----------------------------------------------------------------------------
(* C17 *)

\* A step that is a set_tray(visible = true) call on an existing instance
\* whose registered flag is clear.
ShowOfUnregistered ==
    /\ IsSome(tray)
    /\ ~tray[1].registered
    /\ Len(calls') = Len(calls) + 1
    /\ calls'[Len(calls')].visible

----------------------------------------------------------------------------
(* C18 *)

\* A step that is a set_tray(visible = false) call on an existing instance.
HideCall ==
    /\ IsSome(tray)
    /\ Len(calls') = Len(calls) + 1
    /\ ~calls'[Len(calls')].visible

\* C18: a set_tray(visible = false) call on an instance whose visible flag
\* is set issues exactly one verb, NIM_DELETE, for the instance's window and
\* identifier, clears visible and registered, and leaves the window handle,
\* the identifier, the windows, the user-data slots and the attached menu as
\* they were; it builds no menu.
C18_HideDeletesOnce ==
    [][ (HideCall /\ tray[1].visible) =>
            /\ Len(verbs') = Len(verbs) + 1
            /\ SubSeq(verbs', 1, Len(verbs)) = verbs
            /\ verbs'[Len(verbs')].verb = "NIM_DELETE"
            /\ verbs'[Len(verbs')].hWnd = tray[1].hwnd
            /\ verbs'[Len(verbs')].uID = tray[1].tray_id
            /\ ~tray'[1].visible /\ ~tray'[1].registered
            /\ tray'[1].hwnd = tray[1].hwnd
            /\ tray'[1].tray_id = tray[1].tray_id
            /\ AttachedMenu' = AttachedMenu
            /\ UNCHANGED <<windows, userData, boxes, menus, builds>> ]_vars

\* A registered icon with a menu attached was hidden: the shell removed the
\* icon, the menu is still attached.
C18_Witness ==
    LET n == Len(calls)
    IN  /\ n >= 2
        /\ ~calls[n].visible
        /\ Len(VerbsOfCall(n)) = 1
        /\ VerbsOfCall(n)[1].verb = "NIM_DELETE"
        /\ VerbsOfCall(n)[1].result
        /\ shell = {}
        /\ IsSome(AttachedMenu)
        /\ ~tray[1].visible /\ ~tray[1].registered

----------------------------------------------------------------------------
(* C19 *)

\* C19: a set_tray(visible = false) call on an existing instance whose
\* visible flag is clear makes no native call (no verb, no window, no
\* menu) and leaves the instance, with its window handle, identifier and
\* registered flag, and the attached menu as they were.
C19_HideOfHiddenIsNoOp ==
    [][ (HideCall /\ ~tray[1].visible) =>
            /\ tray' = tray
            /\ AttachedMenu' = AttachedMenu
            /\ UNCHANGED <<verbs, lastNid, shell, windows, userData, boxes,
                           menus, builds, COUNTER, created>> ]_vars

\* An instance with a window and a menu was hidden, then hidden again by a
\* call that carries menu items: the second hide issued nothing.
C19_Witness ==
    LET n == Len(calls)
    IN  /\ n >= 3
        /\ ~calls[n - 1].visible /\ ~calls[n].visible
        /\ IsSome(calls[n].menu_items)
        /\ VerbsOfCall(n - 1) # << >>
        /\ VerbsOfCall(n) = << >>
        /\ BuildsOfCall(n) = << >>
        /\ tray[1].hwnd # NullHwnd
        /\ IsSome(AttachedMenu)

----------------------------------------------------------------------------
(* C20 *)

\* C20: after a set_tray call that carries menu items, whatever the state
\* before it and whatever its visible value, the call has built one popup
\* menu from its items and the menu attached to the instance's window is
\* that menu.
C20_MenuAttached ==
    LET n == Len(calls)
    IN  (n >= 1 /\ IsSome(LastCall.menu_items)) =>
            /\ Len(BuildsOfCall(n)) = 1
            /\ BuildsOfCall(n)[1].items = LastCall.menu_items[1]
            /\ IsSome(AttachedMenu)
            /\ AttachedMenu = BuildsOfCall(n)[1].hmenu
            /\ AttachedEntries = Some(ExpectedEntries(LastCall.menu_items[1]))

----------------------------------------------------------------------------
(* C21 *)

\* The invocations of a menu builder made by the k-th AppTrayExt::set_tray
\* call.
BuilderCallsOf(k) == SelectSeq(builderCalls, LAMBDA b : b.call = k)

\* C21: the k-th set_tray call invokes its descriptor's menu builder
\* exactly once if it has one, whatever its visible value, with the host
\* context and before the backend has been given the call's config, and the
\* items returned are the menu_items of that config; a descriptor without
\* a builder causes no invocation and a config without items.
C21_BuilderInvokedOnce ==
    /\ Len(calls) = Len(trays)
    /\ \A k \in DOMAIN trays :
           IF IsSome(trays[k].menu_builder)
           THEN /\ Len(BuilderCallsOf(k)) = 1
                /\ BuilderCallsOf(k)[1].builder = trays[k].menu_builder[1]
                /\ BuilderCallsOf(k)[1].cx = "App"
                /\ BuilderCallsOf(k)[1].configsBefore = k - 1
                /\ calls[k].menu_items = Some(BuilderCallsOf(k)[1].items)
                /\ calls[k].visible = trays[k].visible
           ELSE /\ BuilderCallsOf(k) = << >>
                /\ calls[k].menu_items = None

\* A hidden descriptor with a builder, after one without: the builder was
\* invoked once and its items forwarded, though the backend built no menu.
C21_Witness ==
    /\ Len(trays) = 2
    /\ trays[1].menu_builder = None
    /\ ~trays[2].visible
    /\ trays[2].menu_builder = Some("short_menu")
    /\ Len(builderCalls) = 1
    /\ calls[2].menu_items = Some(<<QuitItem>>)
    /\ builds = << >>

----------------------------------------------------------------------------
(* C22 *)

\* The message h is the tray callback message with a right-button-up event.
RightClick(h) == h.msg = WM_USER_TRAYICON /\ AsU32(h.lparam) = WM_RBUTTONUP

\* Handling h tracked a popup menu.
ShowsMenu(h) == \E i \in DOMAIN h.native : h.native[i] = "TrackPopupMenu"

\* The user-data slot of the window of h was non-empty and held a menu.
HoldsMenu(h) == h.slot # 0 /\ IsSome(boxes[h.slot].hmenu)

\* Whenever a popup menu is tracked, the call just before it is
\* SetForegroundWindow.
FocusFirst(h) ==
    \A i \in DOMAIN h.native :
        h.native[i] = "TrackPopupMenu" =>
            (i > 1 /\ h.native[i - 1] = "SetForegroundWindow")

\* C22 as stated: on a right click the menu is shown if and only if the
\* user-data slot is non-empty and holds a menu; the foreground is taken
\* before the popup is tracked; no other message or event shows a menu.
C22_ShowsMenuOnRightClick ==
    IsSome(handled) =>
        /\ RightClick(handled[1]) =>
               (ShowsMenu(handled[1]) <=> HoldsMenu(handled[1]))
        /\ FocusFirst(handled[1])
        /\ ~RightClick(handled[1]) => ~ShowsMenu(handled[1])

\* C22, amended: on a right click the menu is shown if and only if the
\* user-data slot is non-empty and holds a menu and GetCursorPos gives the
\* cursor position; the foreground is taken before the popup is tracked; no
\* other message or event shows a menu.
C22_ShowsMenuIfCursorKnown ==
    IsSome(handled) =>
        /\ RightClick(handled[1]) =>
               (ShowsMenu(handled[1]) <=>
                    (HoldsMenu(handled[1]) /\ handled[1].cursorOk))
        /\ FocusFirst(handled[1])
        /\ ~RightClick(handled[1]) => ~ShowsMenu(handled[1])

\* A right click on a window with a menu attached showed that menu.
C22_Witness ==
    /\ IsSome(handled)
    /\ RightClick(handled[1])
    /\ HoldsMenu(handled[1])
    /\ handled[1].native =
           <<"GetCursorPos", "SetForegroundWindow", "TrackPopupMenu",
             "DefWindowProcW">>
    /\ handled[1].hmenu = AttachedMenu

----------------------------------------------------------------------------
(* C23 *)

\* C23: no step, set_tray call or message, hands a TrayEvent to an event
\* handler; a message (left, middle or any other) changes nothing of the
\* backend and the operating system; and the configs given to the backend
\* carry a tooltip, a visible flag and menu items, no event handler.
C23_HandlerNeverInvoked ==
    [][ /\ events' = << >>
        /\ calls' = calls =>
               UNCHANGED <<hasGlobal, tray, COUNTER, windows, userData, boxes,
                           menus, shell, verbs, lastNid, builds, created,
                           panicked, trays, builderCalls>>
        /\ \A k \in DOMAIN calls' :
               DOMAIN calls'[k] = {"tooltip", "visible", "menu_items"} ]_vars

\* A descriptor with an event handler was set, the icon is registered, and
\* a left-button-up message was handled: no event was produced.
C23_Witness ==
    /\ trays # << >>
    /\ trays[Len(trays)].event_handler = Some("on_click")
    /\ IconRegistered
    /\ IsSome(handled)
    /\ handled[1].call = Len(calls)
    /\ handled[1].msg = WM_USER_TRAYICON
    /\ AsU32(handled[1].lparam) = WM_LBUTTONUP
    /\ handled[1].native = <<"DefWindowProcW">>
    /\ events = << >>

----------------------------------------------------------------------------
(* C24 *)

\* The LinuxTrayState and the MacosTrayState after the set_tray calls of
\* seq, from a fresh global.
RECURSIVE LinuxRun(_)
LinuxRun(seq) ==
    IF seq = << >> THEN LinuxTrayState_new
    ELSE linux_update_tray(LinuxRun(SubSeq(seq, 1, Len(seq) - 1)),
                           seq[Len(seq)])

RECURSIVE MacosRun(_)
MacosRun(seq) ==
    IF seq = << >> THEN MacosTrayState_new
    ELSE macos_update_tray(MacosRun(SubSeq(seq, 1, Len(seq) - 1)),
                           seq[Len(seq)])

\* C24: run on the calls made so far, the Linux and the macOS backend are
\* in the same state, an instance whose only field is visible = visible of
\* the last call; the backend of a Linux or macOS build is in that state
\* and has made no native registration; the Windows backend's visible flag
\* is the flag those two have on the same calls.
C24_LinuxMacosSameMachine ==
    /\ LinuxRun(calls) = MacosRun(calls)
    /\ calls # << >> =>
           /\ LinuxRun(calls) = [tray |-> Some([visible |-> LastCall.visible])]
           /\ IsSome(PlatformTray)
           /\ PlatformTray[1].visible = LinuxRun(calls).tray[1].visible
    /\ target_os = "linux" =>
           linuxState = (IF calls = << >> THEN None ELSE Some(LinuxRun(calls)))
    /\ target_os = "macos" =>
           macosState = (IF calls = << >> THEN None ELSE Some(MacosRun(calls)))
    /\ target_os # "windows" =>
           (verbs = << >> /\ shell = {} /\ windows = {} /\ builds = << >>)

\* Windows, with native calls made, after hidden, shown, hidden: its flag
\* is clear as the flag of the Linux and macOS backends on the same calls.
C24_Witness ==
    /\ target_os = "windows"
    /\ VisibleOfCalls = <<FALSE, TRUE, FALSE>>
    /\ verbs # << >>
    /\ ~tray[1].visible
    /\ ~LinuxRun(calls).tray[1].visible
    /\ ~MacosRun(calls).tray[1].visible

----------------------------------------------------------------------------
(* C25 *)

\* Reading the verb names of seq from `from` on as a prefix of
\* (add modify* delete)*: added says whether an add has been read that no
\* delete has followed.
RECURSIVE AddModifyDelete(_, _, _)
AddModifyDelete(seq, from, added) ==
    IF from > Len(seq) THEN TRUE
    ELSE CASE seq[from] = "NIM_ADD" ->
                  ~added /\ AddModifyDelete(seq, from + 1, TRUE)
           [] seq[from] = "NIM_MODIFY" ->
                  added /\ AddModifyDelete(seq, from + 1, TRUE)
           [] seq[from] = "NIM_DELETE" ->
                  added /\ AddModifyDelete(seq, from + 1, FALSE)
           [] OTHER -> FALSE

\* C25: the verbs issued so far form a prefix of (add modify* delete)*.
C25_VerbOrder == AddModifyDelete(VerbNames, 1, FALSE)

----------------------------------------------------------------------------
(* C26 *)

\* C26: every verb issued names a window that was created, and whenever a
\* menu has been built to be attached the instance holds the handle of a
\* window that was created; after a hidden first call and a show, the add
\* names such a window.
C26_ValidWindow ==
    /\ \A i \in DOMAIN verbs :
           verbs[i].hWnd # NullHwnd /\ IsWindow(World, verbs[i].hWnd)
    /\ (\E b \in DOMAIN builds : builds[b].createOk) =>
           (IsSome(tray) /\ IsWindow(World, tray[1].hwnd))
    /\ LiveBoxes # {} => (\E h \in windows : userData[h] \in LiveBoxes)

----------------------------------------------------------------------------
(* C27 *)

\* The last set_tray call made native calls and none of them failed.
LastCallSucceeded ==
    /\ VerbsOfCall(Len(calls)) # << >>
    /\ \A i \in DOMAIN verbs : verbs[i].call = Len(calls) => verbs[i].result
    /\ \A i \in DOMAIN builds : builds[i].call = Len(calls) => builds[i].createOk

\* C27: after a set_tray(visible = true) call whose native calls succeeded,
\* the icon registered for the instance carries the tooltip of that call:
\* its UTF-16 units, or no tooltip if the call has none.
C27_TooltipOfLastCall ==
    (calls # << >> /\ LastCall.visible /\ LastCallSucceeded) =>
        /\ IconRegistered
        /\ \A r \in shell :
               r.szTip = (IF IsSome(LastCall.tooltip)
                          THEN OsStrEncodeWide(LastCall.tooltip[1])
                          ELSE ZeroTip)

----------------------------------------------------------------------------
(* C28 *)

\* C28: a right click handled after the latest set_tray call shows no menu
\* if that call carried no menu items, and otherwise shows only the menu
\* built from that call's items.
C28_MenuOfLatestCall ==
    (/\ IsSome(handled)
     /\ RightClick(handled[1])
     /\ handled[1].call = Len(calls)
     /\ calls # << >>)
    => /\ LastCall.menu_items = None => ~ShowsMenu(handled[1])
       /\ (ShowsMenu(handled[1]) /\ IsSome(LastCall.menu_items)) =>
              /\ BuildsOfCall(Len(calls)) # << >>
              /\ handled[1].hmenu = BuildsOfCall(Len(calls))[1].hmenu
              /\ menus[handled[1].hmenu[1]].entries =
                     ExpectedEntries(LastCall.menu_items[1])

----------------------------------------------------------------------------
(* C29 *)

\* The user-data slot of window h is empty, or points to a TrayUserData
\* that has not been dropped and whose menu handle has not been destroyed.
SlotSound(h) ==
    userData[h] # 0 =>
        /\ userData[h] \in LiveBoxes
        /\ IsSome(boxes[userData[h]].hmenu) =>
               boxes[userData[h]].hmenu[1] \in LiveMenus

\* C29: with messages handled only between set_tray calls, the user-data
\* slot of every tray window is empty or points to a live TrayUserData
\* with a live menu, and a right click the window procedure has handled
\* read either an empty slot or such a pointer: never a dangling one.
C29_NoDanglingUserData ==
    /\ \A h \in windows : SlotSound(h)
    /\ (IsSome(handled) /\ RightClick(handled[1])) =>
           \/ handled[1].slot = 0
           \/ /\ handled[1].ptr = handled[1].slot
              /\ ~handled[1].dangling
              /\ IsSome(handled[1].hmenu) =>
                     handled[1].hmenu[1] \in LiveMenus

\* A right click is handled after a second menu-carrying call has dropped
\* the first box and stored a new one: the slot is read and is not the
\* dropped box.
C29_Witness ==
    /\ IsSome(handled)
    /\ RightClick(handled[1])
    /\ handled[1].slot # 0
    /\ handled[1].call = 2
    /\ \E p \in DOMAIN boxes : boxes[p].freed
    /\ ShowsMenu(handled[1])

----------------------------------------------------------------------------
(* C30 *)

\* C30: the backend creates at most one native window; once the instance
\* holds a valid window handle the handle never changes; and no set_tray
\* call destroys the window or the instance.
C30_OneWindowForLife ==
    [][/\ Cardinality(windows') <= 1
       /\ windows \subseteq windows'
       /\ hasGlobal => hasGlobal'
       /\ IsSome(tray) => IsSome(tray')
       /\ (IsSome(tray) /\ tray[1].hwnd # NullHwnd) =>
              /\ tray[1].hwnd \in windows
              /\ tray'[1].hwnd = tray[1].hwnd]_vars

\* The instance has been shown, hidden and shown again, and still holds
\* the handle of the one window there is.
C30_Witness ==
    /\ Len(calls) >= 3
    /\ calls[1].visible /\ ~calls[2].visible /\ calls[3].visible
    /\ IsSome(tray)
    /\ tray[1].hwnd # NullHwnd
    /\ windows = {tray[1].hwnd}

====
